---- MODULE Spec2Model ----
(***************************************************************************)
(* Browser-side submission helper of django-double-entry:                  *)
(*   collectTransactions / markForCommit / processResponse /               *)
(*   submitTransactions, as a state machine over the live DOM.             *)
(*                                                                         *)
(* Spec        models double_entry/static/js/submit-transactions.js        *)
(* SpecPart000 models the variant of the same script kept in part_000      *)
(*             (same state, its own collect / render / submit code).       *)
(* SpecCallbacks, SpecOnDone : callers that may / always pass an onDone.    *)
(* SpecClean   : the same script on a page where no row starts flagged.    *)
(* SpecCollect : collectTransactions on a one-row container whose row      *)
(*               carries any attributes of a pool.                         *)
(***************************************************************************)
EXTENDS Integers, Sequences, FiniteSets, TLC

VARIABLES dom, inflight, handler, last

vars == <<dom, inflight, handler, last>>

(***************************************************************************)
(* Bounds of the model.                                                    *)
(***************************************************************************)
\* requests that may be awaiting their response at the same time
MaxInFlight == 2
\* entries in one response's pipeline_responses
MaxResp == 2
\* container ids handed to one submitTransactions call
MaxIds == 2
\* data-* attributes on a row that collectTransactions is tried on
MaxDataAttrs == 2

(***************************************************************************)
(* JavaScript values.  Strings that the code takes apart (attribute names, *)
(* record keys) are sequences of characters; opaque strings are TLA+       *)
(* strings.                                                                *)
(***************************************************************************)
Undefined == "undefined"
JSTrue == "<true>"

DataPrefix == <<"d","a","t","a","-">>
AttrClass == <<"c","l","a","s","s">>
AttrAmount == <<"d","a","t","a","-","a","m","o","u","n","t">>
AttrAccountCode ==
    <<"d","a","t","a","-","a","c","c","o","u","n","t","-","c","o","d","e">>
AttrValueDate ==
    <<"d","a","t","a","-","v","a","l","u","e","-","d","a","t","e">>
AttrCommit == <<"d","a","t","a","-","c","o","m","m","i","t">>
AttrAccount_Code ==
    <<"d","a","t","a","-","a","c","c","o","u","n","t","_","c","o","d","e">>
AttrTransactionId ==
    <<"d","a","t","a","-","t","r","a","n","s","a","c","t","i","o","n","-","i","d">>
AttrPipelineSectionId ==
    <<"d","a","t","a","-","p","i","p","e","l","i","n","e","-","s","e","c","t","i","o","n","-","i","d">>
AttrDoNotSkip == <<"d","a","t","a","-","d","o","-","n","o","t","-","s","k","i","p">>

KeyTransactionId == <<"t","r","a","n","s","a","c","t","i","o","n","_","i","d">>
KeyPipelineSectionId ==
    <<"p","i","p","e","l","i","n","e","_","s","e","c","t","i","o","n","_","i","d">>
KeyDoNotSkip == <<"d","o","_","n","o","t","_","s","k","i","p">>

(***************************************************************************)
(* The page: two containers, their rows in document order, and the         *)
(* attributes the markup gives them.                                       *)
(***************************************************************************)
Containers == {"c1", "c2"}
Rows == {"t1", "t2", "t3"}

\* document order of the .resolved-transaction rows under each container
ContainerRows == [c \in Containers |-> IF c = "c1" THEN <<"t1", "t2">> ELSE <<"t3">>]

\* data-pipeline-section-id of each container (c2 does not carry it)
ContainerSection == [c \in Containers |-> IF c = "c1" THEN "s1" ELSE Undefined]

\* this.attributes of each row, in attribute order
RowAttributes ==
    [r \in Rows |->
        CASE r = "t1" -> << <<AttrClass, "resolved-transaction">>,
                            <<AttrAmount, "50">> >>
          [] r = "t2" -> << <<AttrClass, "resolved-transaction">>,
                            <<AttrAmount, "20">>,
                            <<AttrAccountCode, "A1">> >>
          [] OTHER    -> << <<AttrClass, "resolved-transaction">>,
                            <<AttrValueDate, "d1">>,
                            <<AttrCommit, "true">> >>]

RowContainer(r) == CHOOSE c \in Containers : \E i \in DOMAIN ContainerRows[c] : ContainerRows[c][i] = r

\* a row that left the document
RemovedRow == [exists |-> FALSE, verdict |-> Undefined, commit |-> Undefined, html |-> <<>>]

(***************************************************************************)
(* Strings                                                                 *)
(***************************************************************************)
\* String.prototype.startsWith
StartsWith(s, p) == Len(s) >= Len(p) /\ SubSeq(s, 1, Len(p)) = p

\* String.prototype.substring(n)
Substring(s, n) == SubSeq(s, n + 1, Len(s))

\* faulty variant of ReplaceAllHyphens: replace('-', '_'), the first hyphen only
ReplaceAllHyphens_firstOnly(s) ==
    [i \in DOMAIN s |-> IF s[i] = "-" /\ (\A j \in 1..(i - 1) : s[j] # "-")
                        THEN "_" ELSE s[i]]

\* String.prototype.replace(/-/g, '_')
ReplaceAllHyphens(s) == [i \in DOMAIN s |-> IF s[i] = "-" THEN "_" ELSE s[i]]

\* obj[k] = v on a JavaScript object
Put(obj, k, v) == [x \in (DOMAIN obj) \cup {k} |-> IF x = k THEN v ELSE obj[x]]

RECURSIVE Flatten_reversed(_)
\* faulty variant of Flatten: later lists come first
Flatten_reversed(lists) ==
    IF lists = <<>> THEN <<>> ELSE Flatten_reversed(Tail(lists)) \o Head(lists)

RECURSIVE Flatten(_)
\* [].concat.apply([], lists)
Flatten(lists) ==
    IF lists = <<>> THEN <<>> ELSE Head(lists) \o Flatten(Tail(lists))

(***************************************************************************)
(* collectTransactions                                                     *)
(***************************************************************************)
RECURSIVE CopyDataAttributes(_, _)
\* $.each(this.attributes, ...): every data-* attribute becomes a field
CopyDataAttributes(row_data, attrs) ==
    IF attrs = <<>> THEN row_data
    ELSE LET attr == Head(attrs)
             name == attr[1]
             copied == IF StartsWith(name, DataPrefix)
                       THEN Put(row_data, ReplaceAllHyphens(Substring(name, 5)), attr[2])
                       ELSE row_data
         IN  CopyDataAttributes(copied, Tail(attrs))

\* row_data as it stands after the attributes are copied, for a row with
\* element id row_id and attributes attrs
RowRecord(pipelineSectionId, row_id, attrs) ==
    LET base == (KeyTransactionId :> row_id)
        withSection == IF pipelineSectionId # Undefined
                       THEN Put(base, KeyPipelineSectionId, pipelineSectionId)
                       ELSE base
    IN  CopyDataAttributes(withSection, attrs)

\* the same for a row of the page: it is built from the element id, the
\* container's section id and the row's attributes only
RowFields(pipelineSectionId, r) == RowRecord(pipelineSectionId, r, RowAttributes[r])

\* RowFields, tabulated
RowFieldsTable ==
    [p \in {ContainerSection[c] : c \in Containers}, r \in Rows |-> RowFields(p, r)]

\* the record the .map callback returns for a row whose commit flag is set
RowData(d, pipelineSectionId, r) ==
    IF d[r].verdict # "commit"
    THEN Put(RowFieldsTable[pipelineSectionId, r], KeyDoNotSkip, JSTrue)
    ELSE RowFieldsTable[pipelineSectionId, r]

RECURSIVE MapRows_unfiltered(_, _, _)
\* faulty variant of MapRows: the commit flag is not looked at
MapRows_unfiltered(d, pipelineSectionId, rows) ==
    IF rows = <<>> THEN <<>>
    ELSE LET r == Head(rows)
             rest == MapRows_unfiltered(d, pipelineSectionId, Tail(rows))
         IN  IF ~d[r].exists THEN rest
             ELSE <<RowData(d, pipelineSectionId, r)>> \o rest

RECURSIVE MapRows(_, _, _)
\* jQuery .map(...).get(): a callback returning null adds nothing
MapRows(d, pipelineSectionId, rows) ==
    IF rows = <<>> THEN <<>>
    ELSE LET r == Head(rows)
             rest == MapRows(d, pipelineSectionId, Tail(rows))
         IN  IF ~d[r].exists THEN rest
             ELSE IF d[r].commit = Undefined THEN rest
             ELSE <<RowData(d, pipelineSectionId, r)>> \o rest

collectTransactions(d, elementId) ==
    MapRows(d, ContainerSection[elementId], ContainerRows[elementId])

(***************************************************************************)
(* collectTransactions on a container whose only row has element id        *)
(* row_id, feedback state fb and attributes attrs                          *)
(***************************************************************************)
\* data-* attributes a row may carry besides its class
DataAttributePool ==
    { <<AttrAmount, "50">>, <<AttrAccountCode, "A1">>, <<AttrAccount_Code, "A2">>,
      <<AttrTransactionId, "x9">>, <<AttrPipelineSectionId, "s9">>,
      <<AttrDoNotSkip, "no">> }

\* this.attributes of such a row: the class, then data-* attributes with
\* different names
AttributeLists ==
    { << <<AttrClass, "resolved-transaction">> >> \o da :
        da \in { l \in UNION {[1..n -> DataAttributePool] : n \in 0..MaxDataAttrs} :
                    \A i, j \in DOMAIN l : i # j => l[i] # l[j] } }

\* values of the container's data-pipeline-section-id
SectionIds == {Undefined, "s1"}

\* the row that is alone in its container
OnlyRow == "t3"

\* faulty variant of CollectRow: do_not_skip is never set
CollectRow_noDoNotSkip(fb, pipelineSectionId, row_id, attrs) ==
    IF fb.commit = Undefined THEN <<>>
    ELSE <<RowRecord(pipelineSectionId, row_id, attrs)>>

\* static/js: .map(callback).get() over the one row
CollectRow(fb, pipelineSectionId, row_id, attrs) ==
    IF fb.commit = Undefined THEN <<>>
    ELSE IF fb.verdict # "commit"
    THEN <<Put(RowRecord(pipelineSectionId, row_id, attrs), KeyDoNotSkip, JSTrue)>>
    ELSE <<RowRecord(pipelineSectionId, row_id, attrs)>>

\* double_entry/js (the declarations in force, l.64-82): every row gives a
\* record, the feedback element is not looked at
CollectRow_doubleEntry(fb, pipelineSectionId, row_id, attrs) ==
    <<RowRecord(pipelineSectionId, row_id, attrs)>>

(***************************************************************************)
(* markForCommit                                                           *)
(***************************************************************************)
\* faulty variant of markForCommit: a 'discard' verdict does not stop it
markForCommit_ignoresDiscard(d, r, commit) ==
    LET verdict == d[r].verdict
    IN  IF verdict = Undefined
        THEN [ret |-> FALSE, dom |-> d]
        ELSE IF commit
        THEN [ret |-> TRUE, dom |-> [d EXCEPT ![r].commit = "true"]]
        ELSE [ret |-> FALSE, dom |-> [d EXCEPT ![r].commit = Undefined]]

\* returns [ret, dom]: the returned flag and the DOM after the call
markForCommit(d, r, commit) ==
    LET verdict == d[r].verdict
    IN  IF verdict = Undefined \/ verdict = "discard"
        THEN [ret |-> FALSE, dom |-> d]
        ELSE IF commit
        THEN [ret |-> TRUE, dom |-> [d EXCEPT ![r].commit = "true"]]
        ELSE [ret |-> FALSE, dom |-> [d EXCEPT ![r].commit = Undefined]]

(***************************************************************************)
(* processResponse                                                         *)
(***************************************************************************)
RECURSIVE ListItems(_)
\* `${msgs.map(err => `<li>${err}</li>`).concat()}`: the array joined by commas
ListItems(msgs) ==
    IF msgs = <<>> THEN <<>>
    ELSE IF Len(msgs) = 1 THEN <<"<li>", msgs[1], "</li>">>
    ELSE <<"<li>", msgs[1], "</li>", ",">> \o ListItems(Tail(msgs))

ErrorList(errors) == <<"<ul class=transaction-errors>">> \o ListItems(errors) \o <<"</ul>">>
WarningList(warnings) == <<"<ul class=transaction-warnings>">> \o ListItems(warnings) \o <<"</ul>">>

\* faulty variant of FeedbackHtml: the warnings are left out
FeedbackHtml_errorsOnly(errors, warnings) ==
    IF Len(errors) # 0 THEN ErrorList(errors) \o <<"<br/>">> ELSE <<>>

\* the innerHTML built from the errors and warnings of an entry
FeedbackHtml(errors, warnings) ==
    (IF Len(errors) # 0 THEN ErrorList(errors) \o <<"<br/>">> ELSE <<>>)
    \o (IF Len(warnings) # 0 THEN WarningList(warnings) ELSE <<>>)

\* faulty variant of ApplyVerdict: verdict 0 does not set the commit flag
ApplyVerdict_keepsFlag(fb, verdict) ==
    CASE verdict = 0 -> [fb EXCEPT !.verdict = "commit"]
      [] verdict = 1 -> [fb EXCEPT !.verdict = "suggest-skip", !.commit = Undefined]
      [] verdict = 3 -> [fb EXCEPT !.verdict = "discard", !.commit = Undefined]
      [] OTHER -> fb

\* faulty variant of ApplyVerdict: a fatal verdict leaves the commit flag alone
ApplyVerdict_discardKeepsFlag(fb, verdict) ==
    CASE verdict = 0 -> [fb EXCEPT !.verdict = "commit", !.commit = "true"]
      [] verdict = 1 -> [fb EXCEPT !.verdict = "suggest-skip", !.commit = Undefined]
      [] verdict = 3 -> [fb EXCEPT !.verdict = "discard"]
      [] OTHER -> fb

\* faulty variant of ApplyVerdict: code 1 is rendered as a clean commit
ApplyVerdict_skipAsCommit(fb, verdict) ==
    CASE verdict = 0 -> [fb EXCEPT !.verdict = "commit", !.commit = "true"]
      [] verdict = 1 -> [fb EXCEPT !.verdict = "commit", !.commit = "true"]
      [] verdict = 3 -> [fb EXCEPT !.verdict = "discard", !.commit = Undefined]
      [] OTHER -> fb

\* the switch on the server's verdict code
ApplyVerdict(fb, verdict) ==
    CASE verdict = 0 -> [fb EXCEPT !.verdict = "commit", !.commit = "true"]
      [] verdict = 1 -> [fb EXCEPT !.verdict = "suggest-skip", !.commit = Undefined]
      [] verdict = 3 -> [fb EXCEPT !.verdict = "discard", !.commit = Undefined]
      [] OTHER -> fb

\* faulty variant of RemovalCondition: the verdict is not looked at
RemovalCondition_committedOnly(entry, commitIntention) ==
    commitIntention /\ entry.committed

\* the condition under which the row is removed
RemovalCondition(entry, commitIntention) ==
    commitIntention /\ (entry.committed \/ entry.verdict > 0)

\* returns [threw, dom]: whether a TypeError escaped, and the DOM after the call
processResponse(d, entry, commitIntention) ==
    LET id == entry.transaction_id
    IN  IF RemovalCondition(entry, commitIntention)
        THEN [threw |-> FALSE, dom |-> [d EXCEPT ![id] = RemovedRow]]
        ELSE IF ~d[id].exists
        THEN [threw |-> TRUE, dom |-> d]
        ELSE [threw |-> FALSE,
              dom |-> [d EXCEPT ![id] =
                          [ApplyVerdict(d[id], entry.verdict)
                              EXCEPT !.html = FeedbackHtml(entry.errors, entry.warnings)]]]

(***************************************************************************)
(* The variant of the script in part_000                                   *)
(***************************************************************************)
\* .filter('[data-commit="true"]') on the rows themselves
HasCommitAttribute(r) ==
    \E k \in DOMAIN RowAttributes[r] : RowAttributes[r][k] = <<AttrCommit, "true">>

\* returns [threw, value]: the .map callback calls this.find on a DOM element,
\* which is not a function, so the first row that passes the filter throws
collectTransactions_part000(d, elementId) ==
    LET to_commit == SelectSeq(ContainerRows[elementId],
                               LAMBDA r : d[r].exists /\ HasCommitAttribute(r))
    IN  IF to_commit # <<>>
        THEN [threw |-> TRUE, value |-> <<>>]
        ELSE [threw |-> FALSE, value |-> <<>>]

RemovalCondition_part000(entry, commitIntention) ==
    entry.committed \/ (commitIntention /\ entry.verdict > 0)

FeedbackHtml_part000(errors, warnings) ==
    <<"<span class=verdict-feedback></span>", "<br/>">>
    \o (IF Len(errors) # 0 THEN ErrorList(errors) ELSE <<>>)
    \o (IF Len(warnings) # 0 THEN <<"<br/>">> \o WarningList(warnings) ELSE <<>>)

processResponse_part000(d, entry, commitIntention) ==
    LET id == entry.transaction_id
    IN  IF RemovalCondition_part000(entry, commitIntention)
        THEN [threw |-> FALSE, dom |-> [d EXCEPT ![id] = RemovedRow]]
        ELSE IF ~d[id].exists
        THEN [threw |-> TRUE, dom |-> d]
        ELSE [threw |-> FALSE,
              dom |-> [d EXCEPT ![id] =
                          [ApplyVerdict(d[id], entry.verdict)
                              EXCEPT !.html = FeedbackHtml_part000(entry.errors, entry.warnings)]]]

(***************************************************************************)
(* Inputs                                                                  *)
(***************************************************************************)
\* verdict codes the endpoint assigns
VerdictCodes == {0, 1, 3}
MessageLists == {<<>>, <<"m1">>}

\* a ResponseEntry of pipeline_responses: 0 is a clean commit, 1 carries a
\* non-fatal warning, 3 carries a fatal error
Entries ==
    {e \in [transaction_id : Rows, verdict : VerdictCodes, committed : BOOLEAN,
            errors : MessageLists, warnings : MessageLists] :
        /\ e.verdict = 0 => e.errors = <<>> /\ e.warnings = <<>>
        /\ e.verdict = 1 => e.errors = <<>> /\ e.warnings # <<>>
        /\ e.verdict = 3 => e.errors # <<>>}

\* the elementIds argument: lists of container ids
IdLists == UNION {[1..n -> Containers] : n \in 0..MaxIds}

(***************************************************************************)
(* State                                                                   *)
(*   dom      : the feedback state of every row (or RemovedRow)            *)
(*   inflight : for each closure (commit, extraCallback), how many         *)
(*              requests made with it await their response                 *)
(*   handler  : the .done callback that is running, if any                 *)
(*   last     : the most recent call, its arguments and its result         *)
(***************************************************************************)
\* what the .done callback closes over
Closures == [commit : BOOLEAN, extraCallback : BOOLEAN]

IdleHandler == [status |-> "idle", commit |-> FALSE, extraCallback |-> FALSE, remaining |-> 0]

Idle == handler.status = "idle"

\* number of requests awaiting their response
Pending(fl) ==
    fl[[commit |-> FALSE, extraCallback |-> FALSE]]
        + fl[[commit |-> FALSE, extraCallback |-> TRUE]]
        + fl[[commit |-> TRUE, extraCallback |-> FALSE]]
        + fl[[commit |-> TRUE, extraCallback |-> TRUE]]

\* the page as rendered: no verdict yet, the commit flag set or not
InitialRows ==
    [exists : {TRUE}, verdict : {Undefined}, commit : {Undefined, "true"}, html : {<<>>}]

Init ==
    /\ dom \in [Rows -> InitialRows]
    /\ inflight = [c \in Closures |-> 0]
    /\ handler = IdleHandler
    /\ last = [op |-> "load", arg |-> <<>>, ret |-> <<>>]

\* the payload submitTransactions builds
PostData(d, elementIds, commit) ==
    [commit |-> commit,
     transactions |-> Flatten([k \in DOMAIN elementIds |-> collectTransactions(d, elementIds[k])])]

\* the same in part_000: [threw, data]
PostData_part000(d, elementIds, commit) ==
    LET lists == [k \in DOMAIN elementIds |-> collectTransactions_part000(d, elementIds[k])]
    IN  IF \E k \in DOMAIN lists : lists[k].threw
        THEN [threw |-> TRUE, data |-> <<>>]
        ELSE [threw |-> FALSE,
              data |-> [commit |-> commit,
                        transactions |-> Flatten([k \in DOMAIN lists |-> lists[k].value])]]

\* a click handler calls markForCommit on the feedback element of a row
MarkForCommit(r, commit) ==
    /\ Idle
    /\ dom[r].exists
    /\ LET res == markForCommit(dom, r, commit)
       IN  /\ dom' = res.dom
           /\ last' = [op |-> "markForCommit", arg |-> <<r, commit>>, ret |-> res.ret]
    /\ UNCHANGED <<inflight, handler>>

\* faulty variant of SubmitTransactions: collecting a row takes its commit
\* flag away
SubmitTransactions_clearsFlags(elementIds, commit, extraCallback) ==
    LET closure == [commit |-> commit, extraCallback |-> extraCallback]
        post == PostData(dom, elementIds, commit)
        collected == {post.transactions[i][KeyTransactionId] : i \in DOMAIN post.transactions}
    IN  /\ Idle
        /\ Pending(inflight) < MaxInFlight
        /\ inflight' = [inflight EXCEPT ![closure] = @ + 1]
        /\ last' = [op |-> "submitTransactions",
                    arg |-> <<elementIds, commit>>,
                    ret |-> post]
        /\ dom' = [r \in Rows |-> IF r \in collected
                                   THEN [dom[r] EXCEPT !.commit = Undefined]
                                   ELSE dom[r]]
        /\ UNCHANGED handler

\* collectTransactions called on a container (section id pipelineSectionId)
\* whose only row is r, carrying attrs
CollectTransactions(r, pipelineSectionId, attrs) ==
    /\ Idle
    /\ dom[r].exists
    /\ last' = [op |-> "collectTransactions",
                arg |-> <<r, pipelineSectionId, attrs>>,
                ret |-> CollectRow(dom[r], pipelineSectionId, r, attrs)]
    /\ UNCHANGED <<dom, inflight, handler>>

\* the same call with the script of double_entry/js loaded
CollectTransactions_doubleEntry(r, pipelineSectionId, attrs) ==
    /\ Idle
    /\ dom[r].exists
    /\ last' = [op |-> "collectTransactions_doubleEntry",
                arg |-> <<r, pipelineSectionId, attrs>>,
                ret |-> CollectRow_doubleEntry(dom[r], pipelineSectionId, r, attrs)]
    /\ UNCHANGED <<dom, inflight, handler>>

\* processResponse called with an entry, outside any request
ProcessResponse(entry, commitIntention) ==
    /\ Idle
    /\ LET res == processResponse(dom, entry, commitIntention)
       IN  /\ dom' = res.dom
           /\ last' = [op |-> "processResponse",
                       arg |-> <<entry, commitIntention>>, ret |-> res.threw]
    /\ UNCHANGED <<inflight, handler>>

\* submitTransactions up to the $.ajax call: one request leaves
SubmitTransactions(elementIds, commit, extraCallback) ==
    LET closure == [commit |-> commit, extraCallback |-> extraCallback]
    IN  /\ Idle
        /\ Pending(inflight) < MaxInFlight
        /\ inflight' = [inflight EXCEPT ![closure] = @ + 1]
        /\ last' = [op |-> "submitTransactions",
                    arg |-> <<elementIds, commit>>,
                    ret |-> PostData(dom, elementIds, commit)]
        /\ UNCHANGED <<dom, handler>>

\* the same in part_000: a TypeError in collectTransactions ends the call
\* before $.ajax
SubmitTransactions_part000(elementIds, commit, extraCallback) ==
    LET closure == [commit |-> commit, extraCallback |-> extraCallback]
        post == PostData_part000(dom, elementIds, commit)
    IN  /\ Idle
        /\ Pending(inflight) < MaxInFlight
        /\ inflight' = IF post.threw THEN inflight
                       ELSE [inflight EXCEPT ![closure] = @ + 1]
        /\ last' = [op |-> "submitTransactions",
                    arg |-> <<elementIds, commit>>,
                    ret |-> IF post.threw THEN "TypeError" ELSE post.data]
        /\ UNCHANGED <<dom, handler>>

\* the response of a request arrives with n entries: its .done callback starts
ResponseArrives(closure, n) ==
    /\ Idle
    /\ inflight[closure] > 0
    /\ handler' = [status |-> "running", commit |-> closure.commit,
                   extraCallback |-> closure.extraCallback, remaining |-> n]
    /\ inflight' = [inflight EXCEPT ![closure] = @ - 1]
    /\ last' = [op |-> "done", arg |-> <<n>>, ret |-> <<>>]
    /\ UNCHANGED dom

\* the second argument the .done callback passes to responseCallback
CommitIntention(h) == h.commit

\* the same in part_000: the literal true
CommitIntention_part000(h) == TRUE

\* one iteration of pipeline_responses.forEach: responseCallback(resp, commit);
\* a TypeError thrown by the callback ends the .done callback
HandleEntry(entry) ==
    /\ handler.status = "running"
    /\ handler.remaining > 0
    /\ LET ci == CommitIntention(handler)
           res == processResponse(dom, entry, ci)
       IN  /\ dom' = res.dom
           /\ handler' = IF res.threw THEN IdleHandler
                         ELSE [handler EXCEPT !.remaining = @ - 1]
           /\ last' = [op |-> "processResponse", arg |-> <<entry, ci>>, ret |-> res.threw]
    /\ UNCHANGED inflight

HandleEntry_part000(entry) ==
    /\ handler.status = "running"
    /\ handler.remaining > 0
    /\ LET ci == CommitIntention_part000(handler)
           res == processResponse_part000(dom, entry, ci)
       IN  /\ dom' = res.dom
           /\ handler' = IF res.threw THEN IdleHandler
                         ELSE [handler EXCEPT !.remaining = @ - 1]
           /\ last' = [op |-> "processResponse", arg |-> <<entry, ci>>, ret |-> res.threw]
    /\ UNCHANGED inflight

\* after the loop: extraCallback(response) if one was given
HandlerReturns ==
    /\ handler.status = "running"
    /\ handler.remaining = 0
    /\ handler' = IdleHandler
    /\ last' = [op |-> IF handler.extraCallback THEN "extraCallback" ELSE "return",
                arg |-> <<>>, ret |-> <<>>]
    /\ UNCHANGED <<dom, inflight>>

\* faulty variant of RequestFails: the failure is handled like an empty response
RequestFails_runsCallback(closure) ==
    /\ Idle
    /\ inflight[closure] > 0
    /\ inflight' = [inflight EXCEPT ![closure] = @ - 1]
    /\ handler' = [status |-> "running", commit |-> closure.commit,
                   extraCallback |-> closure.extraCallback, remaining |-> 0]
    /\ last' = [op |-> "fail", arg |-> <<>>, ret |-> <<>>]
    /\ UNCHANGED dom

\* the request fails: there is no .fail branch, nothing runs
RequestFails(closure) ==
    /\ Idle
    /\ inflight[closure] > 0
    /\ inflight' = [inflight EXCEPT ![closure] = @ - 1]
    /\ last' = [op |-> "fail", arg |-> <<>>, ret |-> <<>>]
    /\ UNCHANGED <<dom, handler>>

(***************************************************************************)
(* Specifications                                                          *)
(***************************************************************************)
\* callers that leave extraCallback at its default, null
Next ==
    \/ \E r \in Rows, commit \in BOOLEAN : MarkForCommit(r, commit)
    \/ \E ids \in IdLists, commit \in BOOLEAN : SubmitTransactions(ids, commit, FALSE)
    \/ \E closure \in Closures, n \in 0..MaxResp : ResponseArrives(closure, n)
    \/ \E entry \in Entries : HandleEntry(entry)
    \/ HandlerReturns
    \/ \E closure \in Closures : RequestFails(closure)

Spec == Init /\ [][Next]_vars

\* the page as rendered with no row flagged: neither verdict nor commit set
InitClean ==
    /\ Init
    /\ \A r \in Rows : dom[r].commit = Undefined

\* the same script on that page
SpecClean == InitClean /\ [][Next]_vars

\* callers that may pass an extraCallback
NextCallbacks ==
    \/ \E r \in Rows, commit \in BOOLEAN : MarkForCommit(r, commit)
    \/ \E ids \in IdLists, commit \in BOOLEAN, extraCallback \in BOOLEAN :
          SubmitTransactions(ids, commit, extraCallback)
    \/ \E closure \in Closures, n \in 0..MaxResp : ResponseArrives(closure, n)
    \/ \E entry \in Entries : HandleEntry(entry)
    \/ HandlerReturns
    \/ \E closure \in Closures : RequestFails(closure)

SpecCallbacks == Init /\ [][NextCallbacks]_vars

\* callers that always pass an extraCallback
NextOnDone ==
    \/ \E r \in Rows, commit \in BOOLEAN : MarkForCommit(r, commit)
    \/ \E ids \in IdLists, commit \in BOOLEAN : SubmitTransactions(ids, commit, TRUE)
    \/ \E closure \in Closures, n \in 0..MaxResp : ResponseArrives(closure, n)
    \/ \E entry \in Entries : HandleEntry(entry)
    \/ HandlerReturns
    \/ \E closure \in Closures : RequestFails(closure)

SpecOnDone == Init /\ [][NextOnDone]_vars

\* the script of part_000 (it has no markForCommit)
NextPart000 ==
    \/ \E ids \in IdLists, commit \in BOOLEAN, extraCallback \in BOOLEAN :
          SubmitTransactions_part000(ids, commit, extraCallback)
    \/ \E closure \in Closures, n \in 0..MaxResp : ResponseArrives(closure, n)
    \/ \E entry \in Entries : HandleEntry_part000(entry)
    \/ HandlerReturns
    \/ \E closure \in Closures : RequestFails(closure)

SpecPart000 == Init /\ [][NextPart000]_vars

\* collectTransactions tried on a one-row container, the row carrying any
\* attributes of the pool, in the feedback states that markForCommit and
\* processResponse give it
NextCollect ==
    \/ \E commit \in BOOLEAN : MarkForCommit(OnlyRow, commit)
    \/ \E entry \in Entries, commitIntention \in BOOLEAN :
          entry.transaction_id = OnlyRow /\ ProcessResponse(entry, commitIntention)
    \/ \E p \in SectionIds, attrs \in AttributeLists :
          CollectTransactions(OnlyRow, p, attrs)
    \/ \E p \in SectionIds, attrs \in AttributeLists :
          CollectTransactions_doubleEntry(OnlyRow, p, attrs)

\* the page as rendered, the rows of the other container not flagged
InitCollect ==
    /\ Init
    /\ \A r \in Rows \ {OnlyRow} : dom[r].commit = Undefined

SpecCollect == InitCollect /\ [][NextCollect]_vars

(***************************************************************************)
(* Properties                                                              *)
(***************************************************************************)
\* the step is a call of processResponse made by a .done callback
IsProcessResponse == last'.op = "processResponse"
\* its entry, its commitIntention, and whether it threw
CallEntry == last'.arg[1]
CallIntention == last'.arg[2]
CallThrew == last'.ret

\* the DOM with row id taken out and nothing else changed
WithoutRow(d, id) == [d EXCEPT ![id] = RemovedRow]

\* the rows of container c that are in the document with the commit flag set
Eligible(d, c) == {r \in Rows : RowContainer(r) = c /\ d[r].exists /\ d[r].commit = "true"}

\* t occurs in s as a contiguous run
Contains(s, t) == \E i \in 0..(Len(s) - Len(t)) : SubSeq(s, i + 1, i + Len(t)) = t

\* C1: collectTransactions returns a record only for rows whose feedback
\* carries commit = true; a row without the flag adds no entry at all, so the
\* output has exactly one record per flagged row of the container.
C1_OnlyFlaggedRowsCollected ==
    \A c \in Containers :
        LET out == collectTransactions(dom, c)
        IN  /\ \A i \in DOMAIN out :
                  /\ KeyTransactionId \in DOMAIN out[i]
                  /\ out[i][KeyTransactionId] \in Eligible(dom, c)
            /\ Len(out) = Cardinality(Eligible(dom, c))

\* a payload with a record was built from a container that also holds a row
\* the server has answered for and whose commit flag is not set
C1_Witness ==
    /\ last.op = "submitTransactions"
    /\ last.ret.transactions # <<>>
    /\ \E k \in DOMAIN last.arg[1] : \E r \in Rows :
          /\ RowContainer(r) = last.arg[1][k]
          /\ dom[r].exists /\ dom[r].verdict # Undefined /\ dom[r].commit = Undefined

\* C2: processResponse removes the row of entry.transaction_id and changes
\* nothing else whenever committed is true, or commitIntention is true and
\* verdict > 0 (so committed = true removes for both values of commitIntention).
C2_RemovesWhenCommittedOrRejected ==
    [][IsProcessResponse =>
          ((CallEntry.committed \/ (CallIntention /\ CallEntry.verdict > 0))
              => /\ dom' = WithoutRow(dom, CallEntry.transaction_id)
                 /\ ~CallThrew
                 /\ inflight' = inflight)]_vars

\* C3 as stated: an entry with verdict = 3 removes the row whatever
\* commitIntention and committed are.
C3_Verdict3AlwaysRemoves ==
    [][(IsProcessResponse /\ CallEntry.verdict = 3)
          => ~dom'[CallEntry.transaction_id].exists]_vars

\* C3 amended: an entry with verdict = 3 removes the row when commitIntention
\* is true; with commitIntention and committed both false the row stays, its
\* verdict becomes 'discard' and its commit flag is cleared.
C3_Verdict3RemovesUnderCommitIntention ==
    [][(IsProcessResponse /\ CallEntry.verdict = 3)
          => LET id == CallEntry.transaction_id
             IN  /\ CallIntention => dom' = WithoutRow(dom, id) /\ ~CallThrew
                 /\ (~CallIntention /\ ~CallEntry.committed /\ dom[id].exists)
                       => /\ dom'[id].exists
                          /\ dom'[id].verdict = "discard"
                          /\ dom'[id].commit = Undefined]_vars

\* a dry-run entry with verdict 3 has been rendered and the row is still there
C3_Witness ==
    /\ last.op = "processResponse"
    /\ last.arg[1].verdict = 3 /\ ~last.arg[2] /\ ~last.arg[1].committed
    /\ dom[last.arg[1].transaction_id].exists
    /\ dom[last.arg[1].transaction_id].verdict = "discard"

C5_OnEachOncePerEntryWithSentCommit ==
    [][/\ IsProcessResponse
            => /\ CallIntention = handler.commit
               /\ IF CallThrew
                  THEN handler.remaining = 1
                  ELSE /\ handler'.status = "running"
                       /\ handler'.remaining = handler.remaining - 1
       /\ last'.op \in {"return", "extraCallback"} => handler.remaining = 0]_vars

\* C6: an entry for a row that an earlier response already removed is a
\* no-op: no error, no change to any row, and the .done callback goes on to
\* its remaining entries and to the onDone callback.
C6_EntryForRemovedRowIsNoOp ==
    [][(/\ last.op = "done"
        /\ handler.extraCallback
        /\ IsProcessResponse
        /\ ~dom[CallEntry.transaction_id].exists)
          => /\ ~CallThrew
             /\ dom' = dom
             /\ inflight' = inflight
             /\ handler'.status = "running"
             /\ handler'.extraCallback]_vars

\* C7: an entry with verdict = 0 and committed not true, under
\* commitIntention = true, leaves the row in place with verdict = 'commit' and
\* commit = true, whatever its verdict and commit flag were before.
C7_Verdict0UnderCommitIntention ==
    [][(/\ IsProcessResponse
        /\ CallEntry.verdict = 0 /\ ~CallEntry.committed /\ CallIntention
        /\ dom[CallEntry.transaction_id].exists)
          => LET id == CallEntry.transaction_id
             IN  /\ ~CallThrew
                 /\ dom'[id].exists
                 /\ dom'[id].verdict = "commit"
                 /\ dom'[id].commit = "true"
                 /\ \A r \in Rows \ {id} : dom'[r] = dom[r]]_vars

\* such an entry has been rendered
C7_Witness ==
    /\ last.op = "processResponse"
    /\ last.arg[1].verdict = 0 /\ ~last.arg[1].committed /\ last.arg[2]
    /\ ~last.ret
    /\ dom[last.arg[1].transaction_id].verdict = "commit"

\* C8: an entry with verdict = 1, committed = false and warnings, under
\* commitIntention = false, leaves the row in place with verdict
\* 'suggest-skip', no commit flag, and the warning list in its markup.
C8_Verdict1DryRun ==
    [][(/\ IsProcessResponse
        /\ CallEntry.verdict = 1 /\ ~CallEntry.committed /\ ~CallIntention
        /\ CallEntry.warnings # <<>>
        /\ dom[CallEntry.transaction_id].exists)
          => LET id == CallEntry.transaction_id
             IN  /\ ~CallThrew
                 /\ dom'[id].exists
                 /\ dom'[id].verdict = "suggest-skip"
                 /\ dom'[id].commit = Undefined
                 /\ Contains(dom'[id].html, WarningList(CallEntry.warnings))]_vars

\* such an entry has been rendered onto a row that had its commit flag set
C8_Witness ==
    /\ last.op = "processResponse"
    /\ last.arg[1].verdict = 1 /\ ~last.arg[1].committed /\ ~last.arg[2]
    /\ last.arg[1].warnings # <<>>
    /\ ~last.ret
    /\ dom[last.arg[1].transaction_id].verdict = "suggest-skip"
    /\ dom[last.arg[1].transaction_id].html # <<>>

\* C9: a collected record carries do_not_skip = true exactly when the row's
\* verdict is present and is not 'commit'; a collected row whose verdict is
\* 'commit' or absent yields a record without do_not_skip.
C9_DoNotSkipIffVerdictPresentAndNotCommit ==
    last.op = "submitTransactions"
        => \A i \in DOMAIN last.ret.transactions :
              LET rec == last.ret.transactions[i]
                  r == rec[KeyTransactionId]
              IN  (KeyDoNotSkip \in DOMAIN rec /\ rec[KeyDoNotSkip] = JSTrue)
                      <=> dom[r].verdict \notin {Undefined, "commit"}

RECURSIVE Concatenates(_, _, _)
\* tx is, container by container in the order of ids, the records that
\* collectTransactions returns on d, and each container's records are those of
\* its flagged rows in document order
Concatenates(d, ids, tx) ==
    IF ids = <<>> THEN tx = <<>>
    ELSE LET part == collectTransactions(d, Head(ids))
             n == Len(part)
         IN  /\ Len(tx) >= n
             /\ SubSeq(tx, 1, n) = part
             /\ [j \in 1..n |-> part[j][KeyTransactionId]]
                   = SelectSeq(ContainerRows[Head(ids)],
                               LAMBDA r : d[r].exists /\ d[r].commit = "true")
             /\ Concatenates(d, Tail(ids), SubSeq(tx, n + 1, Len(tx)))

\* C10: a submitTransactions call issues exactly one POST; its payload is
\* {commit, transactions} with the commit flag given, and transactions holds
\* the records of collectTransactions for each id in the order of the ids,
\* each container's records in the document order of its rows, taken from the
\* DOM as it is at the call.  No other operation issues a request.
C10_OnePostWithConcatenatedPayload ==
    [][/\ last'.op = "submitTransactions"
            => LET post == last'.ret
               IN  /\ Pending(inflight') = Pending(inflight) + 1
                   /\ DOMAIN post = {"commit", "transactions"}
                   /\ post.commit = last'.arg[2]
                   /\ \E x \in BOOLEAN :
                         inflight' = [inflight EXCEPT
                                         ![[commit |-> post.commit, extraCallback |-> x]] = @ + 1]
                   /\ Concatenates(dom, last'.arg[1], post.transactions)
       /\ last'.op # "submitTransactions" => Pending(inflight') <= Pending(inflight)]_vars

\* a payload was built from c2 then c1 with every row collected
C10_Witness ==
    /\ last.op = "submitTransactions"
    /\ last.arg[1] = <<"c2", "c1">>
    /\ Len(last.ret.transactions) = 3
    /\ last.ret.transactions[1][KeyTransactionId] = "t3"
    /\ last.ret.transactions[2][KeyTransactionId] = "t1"
    /\ last.ret.transactions[3][KeyTransactionId] = "t2"

\* C11: on a successful response onDone(response) is invoked exactly once if
\* it was given, only after onEach has run for every entry (also when there is
\* none), and is not invoked when it was not given: a .done callback that
\* was given an onDone ends only by calling it, with no entry left, and the
\* call is made by no other callback.
C11_OnDoneOnceAfterAllEntries ==
    [][/\ (handler.status = "running" /\ handler.extraCallback /\ handler'.status = "idle")
            => /\ handler.remaining = 0
               /\ last'.op = "extraCallback"
       /\ last'.op = "extraCallback"
            => /\ handler.status = "running"
               /\ handler.extraCallback
               /\ handler.remaining = 0
               /\ handler'.status = "idle"]_vars

\* C12: when the request of a submitTransactions call fails, the UI never
\* updates for that call: the failure changes no row and starts no callback,
\* and it uses up the request, so that onEach and onDone, which run only in a
\* .done callback started by the response of a request, never run for it.
C12_FailedRequestNeverUpdates ==
    [][/\ last'.op = "fail"
            => /\ dom' = dom
               /\ handler.status = "idle"
               /\ handler' = handler
               /\ Pending(inflight') = Pending(inflight) - 1
       /\ (handler.status = "idle" /\ handler'.status = "running")
            => /\ last'.op = "done"
               /\ Pending(inflight') = Pending(inflight) - 1
       /\ last'.op \in {"processResponse", "extraCallback"}
            => handler.status = "running"]_vars

\* the only request in flight, sent with an onDone, failed while a flagged row
\* was still waiting for its first verdict
C12_Witness ==
    /\ last.op = "fail"
    /\ Pending(inflight) = 0
    /\ \E r \in Rows :
          dom[r].exists /\ dom[r].commit = "true" /\ dom[r].verdict = Undefined

\* C13: collectTransactions is read-only: the call that collects the records
\* leaves every row's existence, verdict, commit flag and markup as they were
\* (the rows' attributes are fixed by the page), so collecting again right
\* after it gives the same records.
C13_CollectIsReadOnly ==
    [][last'.op = "submitTransactions"
          => /\ dom' = dom
             /\ last'.ret.transactions
                   = PostData(dom', last'.arg[1], last'.arg[2]).transactions]_vars

\* records were collected and their rows still carry the commit flag
C13_Witness ==
    /\ last.op = "submitTransactions"
    /\ Len(last.ret.transactions) >= 2
    /\ \A i \in DOMAIN last.ret.transactions :
          LET r == last.ret.transactions[i][KeyTransactionId]
          IN  dom[r].exists /\ dom[r].commit = "true"

\* the last call was collectTransactions on the one-row container
IsCollect == last.op \in {"collectTransactions", "collectTransactions_doubleEntry"}
\* the row's element id, the container's section id, the row's attributes
CollectRowId == last.arg[1]
CollectSection == last.arg[2]
CollectAttrs == last.arg[3]

KeyAmount == <<"a","m","o","u","n","t">>

\* the row's only data attribute is data-amount
SingleAmount == Len(CollectAttrs) = 2 /\ CollectAttrs[2][1] = AttrAmount

\* the row carries an attribute with this name
HasAttribute(name) == \E i \in DOMAIN CollectAttrs : CollectAttrs[i][1] = name

DataAttrs == {i \in DOMAIN CollectAttrs : StartsWith(CollectAttrs[i][1], DataPrefix)}

\* the key of a data-* attribute name: 'data-' stripped, hyphens to underscores
KeyOf(name) ==
    [i \in 1..(Len(name) - 5) |-> IF name[i + 5] = "-" THEN "_" ELSE name[i + 5]]

\* the attribute name a key is read back to
NameOf(key) == DataPrefix \o [i \in DOMAIN key |-> IF key[i] = "_" THEN "-" ELSE key[i]]

\* C15 as stated: distinct data-* attributes of a row map to distinct record
\* keys, every data-* attribute's value is in the record under its mapped
\* key, and the attribute name can be recovered from the key.
C15_MappingExactAndReversible ==
    (IsCollect /\ last.ret # <<>>)
        => LET rec == last.ret[1]
           IN  /\ \A i, j \in DataAttrs :
                     i # j => KeyOf(CollectAttrs[i][1]) # KeyOf(CollectAttrs[j][1])
               /\ \A i \in DataAttrs :
                     /\ KeyOf(CollectAttrs[i][1]) \in DOMAIN rec
                     /\ rec[KeyOf(CollectAttrs[i][1])] = CollectAttrs[i][2]
                     /\ NameOf(KeyOf(CollectAttrs[i][1])) = CollectAttrs[i][1]

\* C15 amended: every data-* attribute has its mapped key in the record, and
\* the value under a key is that of the last attribute of the row mapped to
\* it, except that static/js puts true under do_not_skip when the row's
\* verdict is not 'commit'.  For a row none of whose data-* attribute names
\* contains an underscore, distinct attributes map to distinct keys and the
\* name is recovered from the key.
C15_MappingReversibleWithoutUnderscores ==
    (IsCollect /\ last.ret # <<>>)
        => LET rec == last.ret[1]
               forced == last.op = "collectTransactions"
                            /\ dom[CollectRowId].verdict # "commit"
               noUnderscore == \A i \in DataAttrs :
                                  \A c \in DOMAIN CollectAttrs[i][1] :
                                      CollectAttrs[i][1][c] # "_"
           IN  /\ \A i \in DataAttrs :
                     LET k == KeyOf(CollectAttrs[i][1])
                         same == {j \in DataAttrs : KeyOf(CollectAttrs[j][1]) = k}
                         latest == CHOOSE j \in same : \A x \in same : x <= j
                     IN  /\ k \in DOMAIN rec
                         /\ rec[k] = IF k = KeyDoNotSkip /\ forced
                                     THEN JSTrue
                                     ELSE CollectAttrs[latest][2]
               /\ noUnderscore
                    => /\ \A i, j \in DataAttrs :
                             i # j => KeyOf(CollectAttrs[i][1]) # KeyOf(CollectAttrs[j][1])
                       /\ \A i \in DataAttrs :
                             NameOf(KeyOf(CollectAttrs[i][1])) = CollectAttrs[i][1]

\* a record was built from a row carrying two attributes with several
\* hyphens and no underscore
C15_Witness ==
    /\ last.op = "collectTransactions"
    /\ Len(last.ret) = 1
    /\ HasAttribute(AttrAccountCode)
    /\ HasAttribute(AttrPipelineSectionId)
    /\ last.ret[1][KeyOf(AttrAccountCode)] = "A1"

\* C16: markForCommit returns the resulting status of the commit flag: the
\* returned boolean equals whether the feedback element's commit flag is set
\* right after the call, for both values of the commit argument and for every
\* state of the row.
C16_ReturnsResultingFlag ==
    last.op = "markForCommit"
        => (last.ret <=> dom[last.arg[1]].commit = "true")

\* C17: a row is destroyed on terminal outcomes only: a row leaves the DOM
\* only by a processResponse call for its transaction_id whose entry has
\* committed = true, or verdict > 0 when the request was sent with
\* commit = true; no other operation removes a row, and neither does a
\* response to a dry run whose entry has committed = false.
C17_RemovedOnlyOnTerminalOutcome ==
    [][\A r \in Rows :
          (dom[r].exists /\ ~dom'[r].exists)
              => /\ IsProcessResponse
                 /\ CallEntry.transaction_id = r
                 /\ handler.status = "running"
                 /\ \/ CallEntry.committed
                    \/ handler.commit /\ CallEntry.verdict > 0]_vars

\* the verdict state that the spec gives for a server verdict code
VerdictState(code) ==
    CASE code = 0 -> "commit" [] code = 1 -> "suggest-skip" [] code = 3 -> "discard"

\* C18: a row's verdict changes only in processResponse for that row, and the
\* verdict a delivered entry leaves on a row that stays is given by its code
\* alone (0 commit, 1 suggest-skip, 3 discard); markForCommit and the
\* collecting submitTransactions change no verdict and remove no row; a
\* removed row is never changed or restored and is in no later payload.
C18_VerdictOnlyFromServerRemovedTerminal ==
    [][/\ \A r \in Rows :
             /\ dom'[r].verdict # dom[r].verdict
                  => IsProcessResponse /\ CallEntry.transaction_id = r
             /\ ~dom[r].exists => dom'[r] = dom[r]
       /\ (IsProcessResponse /\ ~CallThrew /\ dom'[CallEntry.transaction_id].exists)
            => dom'[CallEntry.transaction_id].verdict = VerdictState(CallEntry.verdict)
       /\ last'.op \in {"markForCommit", "submitTransactions"}
            => \A r \in Rows :
                  dom'[r].verdict = dom[r].verdict /\ dom'[r].exists = dom[r].exists
       /\ last'.op = "submitTransactions"
            => \A i \in DOMAIN last'.ret.transactions :
                  dom[last'.ret.transactions[i][KeyTransactionId]].exists]_vars

\* a payload was collected from the container of a removed row, and held the
\* record of the row next to it
C18_Witness ==
    /\ last.op = "submitTransactions"
    /\ last.arg[1] = <<"c1">>
    /\ ~dom["t1"].exists
    /\ Len(last.ret.transactions) = 1
    /\ last.ret.transactions[1][KeyTransactionId] = "t2"
    /\ dom["t2"].verdict = "suggest-skip"

\* C19: every record collectTransactions produces has transaction_id equal
\* to the element id of the row it was built from, whatever data-* attributes
\* the row carries, data-transaction-id included.
C19_TransactionIdIsElementId ==
    IsCollect
        => \A i \in DOMAIN last.ret :
              /\ KeyTransactionId \in DOMAIN last.ret[i]
              /\ last.ret[i][KeyTransactionId] = CollectRowId

\* C20: on a page whose rows start with neither verdict nor commit set, in
\* every reachable state an existing row whose commit flag is set has verdict
\* 'commit' or 'suggest-skip'.
C20_FlaggedRowsHaveCommittableVerdict ==
    \A r \in Rows :
        (dom[r].exists /\ dom[r].commit = "true")
            => dom[r].verdict \in {"commit", "suggest-skip"}

\* markForCommit has flagged a row again that the server suggested to skip,
\* while another row was discarded
C20_Witness ==
    /\ last.op = "markForCommit"
    /\ last.ret = TRUE
    /\ dom[last.arg[1]].verdict = "suggest-skip"
    /\ dom[last.arg[1]].commit = "true"
    /\ \E r \in Rows : dom[r].exists /\ dom[r].verdict = "discard"

====
